---- MODULE Spec2Model ----
(***************************************************************************)
(* A model of the moon-phase web service in src/app.py: the account store  *)
(* (User table), the three request handlers register, login and            *)
(* get_moon_phase behind token_required, the phase classifier and the      *)
(* shadow geometry of the disk rendering.                                  *)
(*                                                                         *)
(* Real numbers are kept exact by counting in fixed units:                 *)
(*   - moon ages in eighths of a nanoday, so that every bucket boundary    *)
(*     SYNODIC_MONTH * k / 8 is a whole number;                            *)
(*   - illumination in 1/IllumRes percent and canvas coordinates in        *)
(*     1/(1000 * IllumRes) of the unit square;                             *)
(*   - time in ticks of 1/TicksPerSec second.                              *)
(***************************************************************************)
EXTENDS Integers, Sequences, FiniteSets, TLC

VARIABLES
    users,          \* the User table: a sequence of rows, in insertion order
    tokens,         \* the first MaxTokens credentials login issued, each with its issue time
    now,            \* the wall clock, in ticks
    last,           \* the last request and its response (history variable)
    reqs,           \* requests in flight, for the interleaved specification
    age_days,       \* input of the phase classifier
    phase_name,     \* its result
    illumination,   \* input of the disk rendering
    offset,         \* the shadow offset it computes
    shadow_x        \* the shadow centre it computes

httpVars  == <<users, tokens, now, last>>
phaseVars == <<age_days, phase_name>>
diskVars  == <<illumination, offset, shadow_x>>
vars == <<users, tokens, now, last, reqs, age_days, phase_name,
          illumination, offset, shadow_x>>

(***************************************************************************)
(* Bounds of the model.                                                    *)
(***************************************************************************)
MaxCalc     == 2   \* get_moon_phase is not taken once a counter reaches it
MaxTokens   == 1   \* credentials the clients keep
TicksPerSec == 2   \* clock resolution
MaxReqs     == 3   \* requests in flight at once
AgeSlack    == 3   \* ages tried on each side of a bucket boundary
ExtraMonths == 1   \* whole months past the first that ages reach into
IllumRes    == 2   \* illumination steps per percent

Abs(x) == IF x < 0 THEN -x ELSE x

(***************************************************************************)
(* Phase classifier.                                                       *)
(***************************************************************************)
\* Ages are whole numbers of eighths of a nanoday, too large for one machine
\* integer: a number is the pair <<hi, lo>> that stands for hi * Limb + lo,
\* with 0 <= lo < Limb.
Limb == 100000

Norm(hi, lo) == <<hi + (lo \div Limb), lo % Limb>>

Times(n, k) == Norm(n[1] * k, n[2] * k)

Plus(n, d) == Norm(n[1], n[2] + d)

Less(a, b) == a[1] < b[1] \/ (a[1] = b[1] /\ a[2] < b[2])

SYNODIC_MONTH == <<295305, 88853>>      \* 29.530588853 days, in nanodays

PhaseNames == <<"New Moon", "Waxing Crescent", "First Quarter",
                "Waxing Gibbous", "Full Moon", "Waning Gibbous",
                "Last Quarter", "Waning Crescent">>

\* a boundary that belongs to the bucket below it
BelowBoundary_le(age, k) == ~Less(Times(SYNODIC_MONTH, k), age)

\* age_days < fm * k / 8, with age_days counted in eighths of a nanoday
BelowBoundary(age, k) == Less(age, Times(SYNODIC_MONTH, k))

get_phase_name_from_age(age) ==
    IF      BelowBoundary(age, 1) THEN "New Moon"
    ELSE IF BelowBoundary(age, 2) THEN "Waxing Crescent"
    ELSE IF BelowBoundary(age, 3) THEN "First Quarter"
    ELSE IF BelowBoundary(age, 4) THEN "Waxing Gibbous"
    ELSE IF BelowBoundary(age, 5) THEN "Full Moon"
    ELSE IF BelowBoundary(age, 6) THEN "Waning Gibbous"
    ELSE IF BelowBoundary(age, 7) THEN "Last Quarter"
    ELSE                               "Waning Crescent"

\* ages around every eighth of the month, up to ExtraMonths past its end
MaxEighth == 8 * (1 + ExtraMonths)

Ages == { a \in { Plus(Times(SYNODIC_MONTH, k), d) :
                    k \in 0..MaxEighth, d \in (-AgeSlack)..AgeSlack } :
          a[1] >= 0 }

NoPhase == "(not classified)"

(***************************************************************************)
(* Disk rendering: the geometry of the two circles.                        *)
(***************************************************************************)
DiskCenter   == 500     \* 0.5, in thousandths of the unit square
DiskRadius   == 400     \* 0.4
ShadowRadius == 400     \* 0.4
OffsetScale  == 400     \* the factor 0.4 of the offset formula
HalfLit      == 50      \* the branch point, in percent

\* offset = (1 - 2*illumination/100) * 0.4, in 1/(1000*IllumRes)
ShadowOffset(illum) == OffsetScale * IllumRes - (2 * OffsetScale * illum) \div 100

\* the two branches the other way round
ShadowCenter_swapped(illum, off) ==
    IF illum <= HalfLit * IllumRes THEN DiskCenter * IllumRes - off
                                   ELSE DiskCenter * IllumRes + off

\* shadow_x = 0.5 + offset if illumination <= 50 else 0.5 - offset
ShadowCenter(illum, off) ==
    IF illum <= HalfLit * IllumRes THEN DiskCenter * IllumRes + off
                                   ELSE DiskCenter * IllumRes - off

Illuminations == 0..(100 * IllumRes)

NotDrawn == 0 - 1

(***************************************************************************)
(* Account store, credentials and the three handlers.                      *)
(***************************************************************************)
SECRET_KEY  == "dev-key-123"
TOKEN_HOURS == 24
SecPerHour  == 3600

LifetimeTicks == TOKEN_HOURS * SecPerHour * TicksPerSec
MaxClock      == LifetimeTicks + TicksPerSec - 1

NoLogin == 0 - 1                    \* last_login IS NULL

\* str.strip(): a string is a sequence of characters
RECURSIVE lstrip(_)
lstrip(s) == IF s # <<>> /\ Head(s) = " " THEN lstrip(Tail(s)) ELSE s

RECURSIVE rstrip(_)
rstrip(s) == IF s # <<>> /\ s[Len(s)] = " " THEN rstrip(SubSeq(s, 1, Len(s) - 1)) ELSE s

strip(s) == rstrip(lstrip(s))

\* str.lower() on the words a client may send as the scheme
lower(w) ==
    CASE w = "Bearer" -> "bearer"
      [] w = "BEARER" -> "bearer"
      [] w = "Basic"  -> "basic"
      [] OTHER        -> w

\* werkzeug's salted one-way hash, idealised: no two inputs collide
generate_password_hash(pwd, salt) == [salt |-> salt, digest |-> <<salt, pwd>>]

\* a check that takes any password
check_password_hash_any(pwhash, pwd) == TRUE

check_password_hash(pwhash, pwd) == pwhash.digest = <<pwhash.salt, pwd>>

\* User.query.filter_by(username=u).first(): the row's index, 0 for None
first_by_username(table, u) ==
    LET found == { i \in 1..Len(table) : table[i].username = u }
    IN  IF found = {} THEN 0 ELSE CHOOSE i \in found : \A j \in found : i <= j

\* the row User(username=..., password=...) inserts: the column defaults
NewUser(table, usern, pwhash) ==
    [id |-> Len(table) + 1, username |-> usern, password |-> pwhash,
     last_login |-> NoLogin, calculations |-> 0]

\* jwt.encode: a datetime exp is written as whole seconds since the epoch
ExpClaim(at) == ((at \div TicksPerSec) + TOKEN_HOURS * SecPerHour) * TicksPerSec

jwt_encode(usern, at, key) ==
    [has_username |-> TRUE, username |-> usern, exp |-> ExpClaim(at), key |-> key]

\* an expiry check that still takes the credential in the second it expires
Expired_late(tok, at) == tok.exp < at

\* jwt.decode raises ExpiredSignatureError when exp <= now

Expired(tok, at) == tok.exp <= at

NoToken == [has_username |-> FALSE, username |-> <<>>, exp |-> 0, key |-> ""]

\* credentials nobody got from this login: forged, stale, odd payloads
CraftedTokens ==
    { [has_username |-> TRUE,  username |-> <<"a">>, exp |-> 2 * MaxClock, key |-> "guess"],
      [has_username |-> TRUE,  username |-> <<"a">>, exp |-> 0,            key |-> SECRET_KEY],
      [has_username |-> TRUE,  username |-> <<"z">>, exp |-> 2 * MaxClock, key |-> SECRET_KEY],
      [has_username |-> FALSE, username |-> <<>>,    exp |-> 2 * MaxClock, key |-> SECRET_KEY] }

\* the Authorization header after auth.split(): parts = <<scheme>> \o rest,
\* and no part at all when scheme is the empty string
NoHeader == [scheme |-> "", rest |-> <<>>]

PartCount(header) == (IF header.scheme = "" THEN 0 ELSE 1) + Len(header.rest)

WellFormedHeaders(toks) == { [scheme |-> "Bearer", rest |-> <<t>>] : t \in toks }

\* another letter case, another scheme, a missing or a third part
OddHeaders(toks) ==
    {NoHeader, [scheme |-> "Bearer", rest |-> <<>>]}
    \cup { [scheme |-> s, rest |-> <<t>>] : s \in {"bearer", "Basic"}, t \in toks }
    \cup { [scheme |-> "Bearer", rest |-> <<t, t>>] : t \in toks }

\* request bodies of get-moon-phase
Bodies ==
    { [kind |-> "invalid", date |-> ""],             \* not JSON: get_json() raises
      [kind |-> "array",   date |-> ""],             \* a JSON list: data.get raises
      [kind |-> "object",  date |-> ""],             \* no date, or an empty one
      [kind |-> "object",  date |-> "garbage"],      \* ephem.Date raises
      [kind |-> "object",  date |-> "2024-01-11"] }

NoBody == [kind |-> "object", date |-> ""]

GoodBodies == { b \in Bodies : b.date = "2024-01-11" }

\* the bodies that make the handler raise, and the good ones
TellingBodies == { b \in Bodies : b.kind = "array" } \cup GoodBodies

\* get-moon-phase requests: every body with a held credential, the telling
\* bodies with the crafted ones, a good body with the odd headers
MoonRequests(held, crafted) ==
    (WellFormedHeaders(held) \X Bodies)
    \cup (WellFormedHeaders(crafted) \X TellingBodies)
    \cup (OddHeaders(held) \X GoodBodies)

Parseable(date) == date = "2024-01-11"

Response(code, msg) == [code |-> code, message |-> msg]

\* a counter that steps by two
Increment_twice(c) == c + 2

\* current_user.calculations += 1
Increment(c) == c + 1

(* register, lines 80-92: what it answers and the table it leaves *)
register(table, username, password, salt) ==
    LET usern == strip(username)
        pwd   == password
    IN  IF usern = <<>> \/ pwd = ""
        THEN [resp |-> Response(400, "Missing username or password"), users |-> table]
        ELSE IF first_by_username(table, usern) # 0
        THEN [resp |-> Response(400, "Username already exists"), users |-> table]
        ELSE [resp  |-> Response(201, "Registration successful"),
              users |-> Append(table, NewUser(table, usern, generate_password_hash(pwd, salt)))]

\* login as it would be with last_login stamped before the password check
login_stamp_first(table, username, password, at) ==
    LET usern == strip(username)
        pwd   == password
        usr   == first_by_username(table, usern)
        stamped == IF usr = 0 THEN table ELSE [table EXCEPT ![usr].last_login = at]
    IN  IF usern = <<>> \/ pwd = ""
        THEN [resp |-> Response(400, "Missing username or password"),
              users |-> table, token |-> NoToken]
        ELSE IF usr = 0 \/ ~check_password_hash(table[usr].password, pwd)
        THEN [resp |-> Response(401, "Invalid credentials"),
              users |-> stamped, token |-> NoToken]
        ELSE [resp  |-> Response(200, "OK"),
              users |-> stamped,
              token |-> jwt_encode(table[usr].username, at, SECRET_KEY)]

(* login, lines 96-120 *)
login(table, username, password, at) ==
    LET usern == strip(username)
        pwd   == password
        usr   == first_by_username(table, usern)
    IN  IF usern = <<>> \/ pwd = ""
        THEN [resp |-> Response(400, "Missing username or password"),
              users |-> table, token |-> NoToken]
        ELSE IF usr = 0 \/ ~check_password_hash(table[usr].password, pwd)
        THEN [resp |-> Response(401, "Invalid credentials"),
              users |-> table, token |-> NoToken]
        ELSE [resp  |-> Response(200, "OK"),
              users |-> [table EXCEPT ![usr].last_login = at],
              token |-> jwt_encode(table[usr].username, at, SECRET_KEY)]

(* get_moon_phase, lines 125-174, for the row current_user.  raised: an  *)
(* exception left the handler (get_json() on a body that is not JSON,    *)
(* data.get on a JSON list).                                             *)
get_moon_phase(table, current_user, body) ==
    LET quiet(code, msg) ==
            [raised |-> FALSE, resp |-> Response(code, msg), users |-> table, calculations |-> 0]
    IN  IF body.kind # "object"
        THEN [raised |-> TRUE, resp |-> Response(500, "exception"),
              users |-> table, calculations |-> 0]
        ELSE IF body.date = ""
        THEN quiet(400, "Date is required")
        ELSE IF ~Parseable(body.date)
        THEN quiet(400, "Invalid date format; use YYYY-MM-DD")
        ELSE LET counted ==
                     [table EXCEPT ![current_user].calculations = Increment(@)]
             IN  [raised |-> FALSE, resp |-> Response(200, "OK"), users |-> counted,
                  calculations |-> counted[current_user].calculations]

(* token_required, lines 42-58, around get_moon_phase.  user: the row the *)
(* credential was accepted for, 0 when the handler was not reached.       *)
token_required(table, header, body, at) ==
    LET deny(msg) == [resp |-> Response(401, msg), users |-> table,
                      calculations |-> 0, user |-> 0]
    IN  IF PartCount(header) # 2 \/ lower(header.scheme) # "bearer"
        THEN deny("Invalid or missing Authorization header")
        ELSE LET token == header.rest[1]
                 user  == first_by_username(table, token.username)
                 out   == get_moon_phase(table, user, body)
             IN  IF token.key # SECRET_KEY  THEN deny("Invalid token")
                 ELSE IF Expired(token, at) THEN deny("Token has expired")
                 ELSE IF ~token.has_username THEN deny("Invalid token")
                 ELSE IF user = 0           THEN deny("User not found")
                 ELSE IF out.raised
                 THEN [resp |-> Response(401, "Invalid token"), users |-> out.users,
                       calculations |-> 0, user |-> user]
                 ELSE [resp |-> out.resp, users |-> out.users,
                       calculations |-> out.calculations, user |-> user]

(***************************************************************************)
(* The requests, one action per handler, and the clock.                    *)
(***************************************************************************)
UsernameInputs == { <<>>, <<" ">>, <<"a">>, <<" ", "a">>, <<"a", " ">>, <<"b">> }
PasswordInputs == { "", "p1", "p2" }
Salts          == { "s1" }

\* the instants at which the clock is looked at: around the issue of a
\* credential and around its expiry
ClockSamples == (0..(TicksPerSec - 1)) \cup ((LifetimeTicks - 1)..MaxClock)

NoRequest ==
    [op |-> "none", username |-> <<>>, password |-> "", header |-> NoHeader,
     body |-> NoBody, resp |-> Response(0, ""), token |-> NoToken,
     calculations |-> 0, user |-> 0, before |-> <<>>]

IdleReq ==
    [op |-> "none", pc |-> "idle", username |-> <<>>, password |-> "",
     usern |-> <<>>, pwhash |-> generate_password_hash("", ""),
     user |-> 0, counted |-> 0, resp |-> Response(0, ""), calculations |-> 0]

Held == { h.tok : h \in tokens }

HttpIdle ==
    /\ users = <<>>
    /\ tokens = {}
    /\ now = 0
    /\ last = NoRequest
    /\ reqs = [r \in 1..MaxReqs |-> IdleReq]

PhaseIdle ==
    /\ age_days = <<0, 0>>
    /\ phase_name = NoPhase

DiskIdle ==
    /\ illumination = 0
    /\ offset = 0
    /\ shadow_x = NotDrawn

Init == HttpIdle /\ PhaseIdle /\ DiskIdle

Register(username, password, salt) ==
    LET r == register(users, username, password, salt)
    IN  /\ users' = r.users
        /\ last' = [NoRequest EXCEPT !.op = "register", !.username = username,
                                     !.password = password, !.resp = r.resp,
                                     !.before = users]
        /\ UNCHANGED <<tokens, now, reqs, phaseVars, diskVars>>

Login(username, password) ==
    LET r == login(users, username, password, now)
    IN  /\ users' = r.users
        /\ tokens' = IF r.resp.code = 200 /\ Cardinality(tokens) < MaxTokens
                     THEN tokens \cup {[tok |-> r.token, iat |-> now]}
                     ELSE tokens
        /\ last' = [NoRequest EXCEPT !.op = "login", !.username = username,
                                     !.password = password, !.resp = r.resp,
                                     !.token = r.token, !.before = users]
        /\ UNCHANGED <<now, reqs, phaseVars, diskVars>>

GetMoonPhase(header, body) ==
    LET r == token_required(users, header, body, now)
    IN  /\ \A i \in 1..Len(r.users) : r.users[i].calculations <= MaxCalc
        /\ users' = r.users
        /\ last' = [NoRequest EXCEPT !.op = "moon", !.header = header, !.body = body,
                                     !.resp = r.resp, !.calculations = r.calculations,
                                     !.user = r.user, !.before = users]
        /\ UNCHANGED <<tokens, now, reqs, phaseVars, diskVars>>

Advance(d) ==
    /\ now + d \in ClockSamples
    /\ now' = now + d
    /\ last' = NoRequest
    /\ UNCHANGED <<users, tokens, reqs, phaseVars, diskVars>>

Next ==
    \/ \E u \in UsernameInputs, p \in PasswordInputs, s \in Salts : Register(u, p, s)
    \/ \E u \in UsernameInputs, p \in PasswordInputs : Login(u, p)
    \/ \E q \in MoonRequests(Held, CraftedTokens) : GetMoonPhase(q[1], q[2])
    \/ Advance(LifetimeTicks)

Spec == Init /\ [][Next]_vars

(***************************************************************************)
(* The same handlers with the clock looked at tick by tick around the      *)
(* issue and the expiry of a credential; fewer request shapes.             *)
(***************************************************************************)
TimedUsernames == { <<"a">>, <<"b">> }
TimedBodies    == { b \in Bodies : b.kind = "array" \/ b.date # "" }

NextTime ==
    \/ \E u \in TimedUsernames, s \in Salts : Register(u, "p1", s)
    \/ \E u \in TimedUsernames : Login(u, "p1")
    \/ \E h \in WellFormedHeaders(Held), b \in TimedBodies : GetMoonPhase(h, b)
    \/ \E d \in {1, LifetimeTicks - 1} : Advance(d)

SpecTime == Init /\ [][NextTime]_vars

(***************************************************************************)
(* The phase classifier on its own: any age, classified once.              *)
(***************************************************************************)
InitPhase ==
    /\ HttpIdle /\ DiskIdle
    /\ age_days \in Ages
    /\ phase_name = NoPhase

Classify ==
    /\ phase_name = NoPhase
    /\ phase_name' = get_phase_name_from_age(age_days)
    /\ UNCHANGED <<age_days, httpVars, reqs, diskVars>>

SpecPhase == InitPhase /\ [][Classify]_vars

(***************************************************************************)
(* The shadow geometry on its own: any illumination, drawn once.           *)
(***************************************************************************)
InitDisk ==
    /\ HttpIdle /\ PhaseIdle
    /\ illumination \in Illuminations
    /\ offset = 0
    /\ shadow_x = NotDrawn

Draw ==
    /\ shadow_x = NotDrawn
    /\ offset' = ShadowOffset(illumination)
    /\ shadow_x' = ShadowCenter(illumination, offset')
    /\ UNCHANGED <<illumination, httpVars, reqs, phaseVars>>

SpecDisk == InitDisk /\ [][Draw]_vars

(***************************************************************************)
(* Requests served side by side (the server runs one thread per request,   *)
(* each with its own database session).  A handler is cut where it talks   *)
(* to the database: the SELECT of a query and the flush and COMMIT of      *)
(* db.session.commit().  Nothing holds the row between the two.            *)
(***************************************************************************)
Done(r, resp) == [reqs EXCEPT ![r].pc = "done", ![r].resp = resp]

(* register up to the SELECT: lines 80-89 *)
register_check(r, username, password, salt) ==
    LET out == register(users, username, password, salt)
    IN  /\ reqs[r].pc = "idle"
        /\ reqs' = IF out.resp.code # 201
                   THEN [Done(r, out.resp) EXCEPT ![r].op = "register",
                              ![r].username = username, ![r].password = password]
                   ELSE [reqs EXCEPT ![r].op = "register", ![r].pc = "insert",
                              ![r].username = username, ![r].password = password,
                              ![r].usern = strip(username),
                              ![r].pwhash = generate_password_hash(password, salt)]
        /\ UNCHANGED <<httpVars, phaseVars, diskVars>>

(* register's INSERT and COMMIT: lines 90-92.  username is unique=True, so *)
(* the INSERT of a name another request has committed raises               *)
(* IntegrityError, which nothing catches: the server answers 500.          *)
register_commit(r) ==
    /\ reqs[r].pc = "insert"
    /\ IF first_by_username(users, reqs[r].usern) # 0
       THEN /\ reqs' = Done(r, Response(500, "Internal Server Error"))
            /\ UNCHANGED users
       ELSE /\ users' = Append(users, NewUser(users, reqs[r].usern, reqs[r].pwhash))
            /\ reqs' = Done(r, Response(201, "Registration successful"))
    /\ UNCHANGED <<tokens, now, last, phaseVars, diskVars>>

(* get-moon-phase up to the commit: token_required's SELECT (line 50) and  *)
(* lines 125-166.  calculations += 1 adds to the value that SELECT read.   *)
moon_load(r, header, body) ==
    LET out == token_required(users, header, body, now)
    IN  /\ reqs[r].pc = "idle"
        /\ \A i \in 1..Len(out.users) : out.users[i].calculations <= MaxCalc
        /\ reqs' = IF out.resp.code # 200
                   THEN [Done(r, out.resp) EXCEPT ![r].op = "moon", ![r].user = out.user]
                   ELSE [reqs EXCEPT ![r].op = "moon", ![r].pc = "commit",
                              ![r].user = out.user,
                              ![r].counted = out.users[out.user].calculations]
        /\ UNCHANGED <<httpVars, phaseVars, diskVars>>

(* its UPDATE and COMMIT, and the answer: lines 167-174 *)
moon_commit(r) ==
    /\ reqs[r].pc = "commit"
    /\ users' = [users EXCEPT ![reqs[r].user].calculations = reqs[r].counted]
    /\ reqs' = [Done(r, Response(200, "OK")) EXCEPT
                   ![r].calculations = users'[reqs[r].user].calculations]
    /\ UNCHANGED <<tokens, now, last, phaseVars, diskVars>>

ConcUsernames == { <<"a">>, <<" ", "a">> }
ConcBodies    == GoodBodies
ConcHeaders   == WellFormedHeaders(Held)

NextConc ==
    \/ \E r \in 1..MaxReqs, u \in ConcUsernames, s \in Salts : register_check(r, u, "p1", s)
    \/ \E r \in 1..MaxReqs : register_commit(r)
    \/ \E u \in ConcUsernames : Login(u, "p1")
    \/ \E r \in 1..MaxReqs, h \in ConcHeaders, b \in ConcBodies : moon_load(r, h, b)
    \/ \E r \in 1..MaxReqs : moon_commit(r)

SpecConc == Init /\ [][NextConc]_vars

(***************************************************************************)
(* Properties.                                                             *)
(***************************************************************************)
Min(a, b) == IF a < b THEN a ELSE b

Rows(table) == 1..Len(table)

\* the credential of a request whose header has exactly two parts
Presented == last.header.rest[1]

WellFormed(header) == PartCount(header) = 2 /\ lower(header.scheme) = "bearer"

\* the password a row was registered with (the hash is taken as collision free)
RegisteredPassword(row) == row.password.digest[2]

(* C1: an account's calculations counter starts at 0, never decreases, grows *)
(* by exactly 1 on each get-moon-phase request of that account answered 200, *)
(* is left alone by every other request (register, login, a failed           *)
(* get-moon-phase, anything by another account), and the 'calculations' of a *)
(* 200 answer is the stored counter after the increment.                     *)
C1_CounterContract ==
    LET before == last.before
        counted == last.op = "moon" /\ last.resp.code = 200
    IN  last.op # "none" =>
          /\ Len(users) >= Len(before)
          /\ \A i \in Rows(users) : i > Len(before) => users[i].calculations = 0
          /\ \A i \in Rows(before) : users[i].calculations >= before[i].calculations
          /\ counted =>
               /\ last.user \in Rows(before)
               /\ users[last.user].username = Presented.username
               /\ users[last.user].calculations = before[last.user].calculations + 1
               /\ last.calculations = users[last.user].calculations
               /\ \A i \in Rows(before) \ {last.user} :
                      users[i].calculations = before[i].calculations
          /\ ~counted =>
               \A i \in Rows(before) : users[i].calculations = before[i].calculations

\* the second successful call of an account answers 2, beside another account
C1_Witness ==
    /\ last.op = "moon" /\ last.resp.code = 200
    /\ last.calculations = 2
    /\ Len(users) = 2

(* C4, the claim as stated: get-moon-phase answers 401 exactly when the     *)
(* request has an authentication failure - (a) the header is missing or not *)
(* 'Bearer <token>', (b) the token is expired, (c) it is otherwise invalid, *)
(* (d) its username is no account - each with its own message; a request    *)
(* with a well-formed, rightly signed, unexpired token of an existing       *)
(* account is never answered 401 whatever its body, only 200 or 400.        *)
C4_Unauthorized_iff_AuthFailure ==
    LET malformed == ~WellFormed(last.header)
        badsig    == Presented.key # SECRET_KEY
        expired   == ~badsig /\ Presented.exp <= now
        invalid   == badsig \/ (~expired /\ ~Presented.has_username)
        unknown   == ~expired /\ ~invalid
                     /\ first_by_username(last.before, Presented.username) = 0
        message   == IF malformed THEN "Invalid or missing Authorization header"
                     ELSE IF expired THEN "Token has expired"
                     ELSE IF invalid THEN "Invalid token"
                     ELSE "User not found"
    IN  last.op = "moon" =>
          IF malformed \/ expired \/ invalid \/ unknown
          THEN last.resp = Response(401, message)
          ELSE last.resp.code \in {200, 400}

\* token_required took the credential and ran the handler for its account
Accepted ==
    /\ last.user \in Rows(last.before)
    /\ last.before[last.user].username = Presented.username

(* C5, the claim as stated: a credential issued by a login at time t is     *)
(* accepted by get-moon-phase at every later time before t + 24 hours and   *)
(* answered 401 from t + 24 hours on.                                       *)
C5_Lifetime_Exactly_24h ==
    (last.op = "moon" /\ WellFormed(last.header)) =>
        \A h \in tokens : h.tok = Presented =>
            IF now < h.iat + LifetimeTicks
            THEN Accepted
            ELSE ~Accepted /\ last.resp.code = 401

\* the second in which the credential issued at tick t expires
ExpirySecond(t) == (t \div TicksPerSec) + TOKEN_HOURS * SecPerHour

(* C5, amended: a credential issued by a login at time t is accepted by     *)
(* get-moon-phase (token_required runs the handler for its account) at      *)
(* every later time before the whole second that t + 24 hours falls in, and *)
(* is answered 401 'Token has expired' from the start of that second on; no *)
(* login, registration or computation by any account changes this.          *)
C5_Lifetime_To_The_Second ==
    (last.op = "moon" /\ WellFormed(last.header)) =>
        \A h \in tokens : h.tok = Presented =>
            IF now < ExpirySecond(h.iat) * TicksPerSec
            THEN Accepted
            ELSE /\ ~Accepted
                 /\ last.resp = Response(401, "Token has expired")
                 /\ users = last.before

\* a credential issued within a second is refused at the start of the second
\* of its expiry, before its 24 hours are over, after a later login
C5_Witness ==
    /\ last.op = "moon" /\ WellFormed(last.header)
    /\ last.resp = Response(401, "Token has expired")
    /\ \E h \in tokens :
         /\ h.tok = Presented
         /\ h.iat % TicksPerSec # 0
         /\ now < h.iat + LifetimeTicks
         /\ \E i \in Rows(users) : users[i].last_login > h.iat

(* C6, the claim as stated: /login with non-empty username u and password p *)
(* answers 200 with a token for the stored username exactly when an account *)
(* named strip(u) exists and p is the password it was registered with; a    *)
(* wrong password or an unknown username is always answered 401 without a   *)
(* token; an empty username or password is answered 400.                    *)
C6_Login_NonEmpty ==
    LET usr   == first_by_username(last.before, strip(last.username))
        known == usr # 0 /\ RegisteredPassword(last.before[usr]) = last.password
    IN  last.op = "login" =>
          IF last.username = <<>> \/ last.password = ""
          THEN last.resp.code = 400 /\ last.token = NoToken
          ELSE IF known
          THEN /\ last.resp.code = 200
               /\ last.token.key = SECRET_KEY
               /\ last.token.username = last.before[usr].username
          ELSE last.resp.code = 401 /\ last.token = NoToken

(* C6, amended: /login whose username is not blank (not empty after         *)
(* stripping) and whose password is not empty answers 200 with a token for  *)
(* the stored username exactly when an account named strip(u) exists and p  *)
(* is the password it was registered with, and 401 without a token          *)
(* otherwise; a username that is empty or only whitespace, or an empty      *)
(* password, is answered 400.                                               *)
C6_Login_NonBlank ==
    LET usr   == first_by_username(last.before, strip(last.username))
        known == usr # 0 /\ RegisteredPassword(last.before[usr]) = last.password
    IN  last.op = "login" =>
          IF strip(last.username) = <<>> \/ last.password = ""
          THEN last.resp.code = 400 /\ last.token = NoToken
          ELSE IF known
          THEN /\ last.resp.code = 200
               /\ last.token.key = SECRET_KEY
               /\ last.token.has_username
               /\ last.token.username = last.before[usr].username
          ELSE last.resp.code = 401 /\ last.token = NoToken

\* a login with padded username succeeds, beside an account with another password
C6_Witness ==
    /\ last.op = "login" /\ last.resp.code = 200
    /\ last.username # strip(last.username)
    /\ \E i \in Rows(users) : RegisteredPassword(users[i]) # last.password

(* C7: a request answered with an error leaves the whole account store as   *)
(* it was: a 400 of /register, a 400 or 401 of /login, a 401 or 400 of      *)
(* get-moon-phase.                                                          *)
C7_Errors_Change_Nothing ==
    (last.op # "none" /\ last.resp.code >= 400) => users = last.before

\* an unparseable date, from an account that has logged in and computed before
C7_Witness ==
    /\ last.op = "moon"
    /\ last.resp = Response(400, "Invalid date format; use YYYY-MM-DD")
    /\ users[last.user].calculations > 0
    /\ users[last.user].last_login # NoLogin

(* C2, the claim as stated: when get-moon-phase requests of one account run *)
(* side by side and all answer 200, the stored counter ends exactly as many *)
(* higher, whatever the interleaving (no lost update).                      *)
C2_NoLostUpdate ==
    (\A r \in 1..MaxReqs : reqs[r].pc \in {"idle", "done"}) =>
        \A i \in Rows(users) :
            users[i].calculations =
                Cardinality({ r \in 1..MaxReqs : /\ reqs[r].op = "moon"
                                                 /\ reqs[r].resp.code = 200
                                                 /\ reqs[r].user = i })

(* C3, the claim as stated: no two accounts share a username, and of the    *)
(* /register requests that carry one stripped non-empty username and        *)
(* non-empty passwords, in any interleaving, exactly one is answered 201    *)
(* and every other one 400 'Username already exists'.                       *)
C3_RegisterOnce ==
    /\ \A i, j \in Rows(users) : users[i].username = users[j].username => i = j
    /\ \A u \in { strip(n) : n \in ConcUsernames } :
         LET same == { r \in 1..MaxReqs : /\ reqs[r].op = "register"
                                          /\ strip(reqs[r].username) = u
                                          /\ reqs[r].password # "" }
             won  == { r \in same : reqs[r].resp.code = 201 }
         IN  (same # {} /\ \A r \in same : reqs[r].pc = "done") =>
               /\ Cardinality(won) = 1
               /\ \A r \in same \ won :
                      reqs[r].resp = Response(400, "Username already exists")

\* the whole multiples of the eighth of a month that lie at or below an age
EighthsBelow(age) ==
    CHOOSE k \in 0..MaxEighth :
        ~Less(age, Times(SYNODIC_MONTH, k)) /\ Less(age, Times(SYNODIC_MONTH, k + 1))

(* C8: get_phase_name_from_age cuts the synodic month S into 8 equal        *)
(* half-open buckets [k*S/8, (k+1)*S/8): a non-negative age gets the k-th   *)
(* label of the fixed order with k = min(7, floor(age / (S/8))); so age 0   *)
(* is 'New Moon', age S/2 is 'Full Moon', an age at a boundary takes the    *)
(* next label and every age from 7S/8 on is 'Waning Crescent'.              *)
C8_Buckets ==
    phase_name # NoPhase =>
        /\ phase_name = PhaseNames[1 + Min(7, EighthsBelow(age_days))]
        /\ age_days = <<0, 0>> => phase_name = "New Moon"
        /\ age_days = Times(SYNODIC_MONTH, 4) => phase_name = "Full Moon"
        /\ ~Less(age_days, Times(SYNODIC_MONTH, 7)) => phase_name = "Waning Crescent"

\* an age exactly at the third boundary has moved on to the next label
C8_Witness ==
    /\ age_days = Times(SYNODIC_MONTH, 3)
    /\ phase_name = "Waxing Gibbous"

\* distance of the two centres, and how the shadow circle lies on the disk
CenterDistance == Abs(shadow_x - DiskCenter * IllumRes)

ShadowCoversDisk == CenterDistance + DiskRadius * IllumRes <= ShadowRadius * IllumRes

ShadowClearsDisk == CenterDistance >= (DiskRadius + ShadowRadius) * IllumRes

(* C9, the claim as stated: at illumination 0 the offset is +0.4 and the    *)
(* shadow fully covers the disk; at illumination 100 the offset is -0.4 and *)
(* the shadow fully clears the disk (the circles do not overlap); at        *)
(* illumination 50 the offset is 0 and the disk is half covered (so neither *)
(* fully covered nor fully clear).                                          *)
C9_Dark_Lit_Half ==
    shadow_x # NotDrawn =>
        /\ illumination = 0 =>
               offset = OffsetScale * IllumRes /\ ShadowCoversDisk
        /\ illumination = 100 * IllumRes =>
               offset = -(OffsetScale * IllumRes) /\ ShadowClearsDisk
        /\ illumination = HalfLit * IllumRes =>
               offset = 0 /\ ~ShadowCoversDisk /\ ~ShadowClearsDisk

====
